---- MODULE Spec2Model ----
(***************************************************************************)
(* A model of py_caster.py, a 2.5D ray caster: the ray/segment             *)
(* intersection (LineSegment.intersect), the texture addressing            *)
(* (get_tex_column, Plane3d.sample_texture), the distance shading and the  *)
(* frame loop of main (wall pass, floor/ceiling casting, sprite pass).     *)
(*                                                                         *)
(* Python floats are modelled in two ways.  The pure functions are         *)
(* modelled over exact rationals (records [num, den]), so that boundary    *)
(* cases (t2 = 0, t2 = 1, s an integer) are decided exactly.  The frame    *)
(* loop, which needs sqrt and cos, is modelled in fixed point with FX      *)
(* units per world unit.                                                   *)
(***************************************************************************)
EXTENDS Integers, Sequences, FiniteSets, TLC

VARIABLES
    \* --- LineSegment.intersect, called on one segment and one ray
    l,              \* the LineSegment (self)
    r,              \* the Ray
    intersection,   \* what l.intersect(r) returned
    pcI,            \* "call" before the call, "done" after it
    \* --- texture addressing: get_tex_column and Plane3d.sample_texture
    texture,        \* [w, h]: the texture's get_width() and get_height()
    st,             \* the coordinate sampled (st.x is get_tex_column's s)
    shift,          \* <<k, m>>: the whole numbers the coordinate is moved by
    column,         \* <<get_tex_column(s), get_tex_column(s + k)>>
    texel,          \* <<sample_texture(st), sample_texture(st + (k, m))>>
    pcT,            \* "column", "texel", "done"
    \* --- distance shading at its three sites
    dist,           \* <<x, y>>: two distances
    shade,          \* [wall, plane, sprite]: the factor at x and at y
    pcS,            \* "wall", "plane", "sprite", "done"
    \* --- the frame loop of main
    player_pos, player_dir, plane,
    arrow_keys,     \* the keys of arrow_keys that are True
    done,
    pc,             \* "input", "clear", "walls", "sort", "sprites", "present", "quit"
    frame,          \* the number of the frame being made
    i,              \* the column of the wall loop
    angle,
    depth_buffer,
    depth_stamp,    \* per column: the frame whose wall pass wrote depth_buffer[i]
                    \* (0: not written since the list was made)
    hits,           \* per column: the wall loop's c, d, p and h
    frame_buffer,
    sprites,        \* the list of sprites, in its current order
    si,             \* the position of the sprite loop in sprites
    sprite_log      \* per sprite of this frame: tx, ty, footprint, columns drawn

varsI == <<l, r, intersection, pcI>>

varsT == <<texture, st, shift, column, texel, pcT>>

varsS == <<dist, shade, pcS>>

varsF == <<player_pos, player_dir, plane, arrow_keys, done, pc, frame, i,
           angle, depth_buffer, depth_stamp, hits, frame_buffer, sprites, si,
           sprite_log>>

vars == <<l, r, intersection, pcI, texture, st, shift, column, texel, pcT,
          dist, shade, pcS, player_pos, player_dir, plane, arrow_keys, done,
          pc, frame, i, angle, depth_buffer, depth_stamp, hits, frame_buffer,
          sprites, si, sprite_log>>

None == [none |-> TRUE]

(***************************************************************************)
(* Exact rationals: [num, den] with den > 0 and gcd(num, den) = 1.         *)
(***************************************************************************)
Abs(n) == IF n < 0 THEN -n ELSE n

Sgn(n) == IF n = 0 THEN 0 ELSE IF n > 0 THEN 1 ELSE -1

RECURSIVE Gcd(_, _)
Gcd(a, b) == IF b = 0 THEN a ELSE Gcd(b, a % b)

Rat(n, d) ==
    LET g == Gcd(Abs(n), Abs(d))
        s == IF d < 0 THEN -1 ELSE 1
    IN  [num |-> (s * n) \div g, den |-> (s * d) \div g]

RInt(n) == [num |-> n, den |-> 1]

RAdd(p, q) == Rat(p.num * q.den + q.num * p.den, p.den * q.den)

RNeg(p) == [num |-> -p.num, den |-> p.den]

RSub(p, q) == RAdd(p, RNeg(q))

RMul(p, q) == Rat(p.num * q.num, p.den * q.den)

\* q.num # 0
RDiv(p, q) == Rat(p.num * q.den, p.den * q.num)

RLt(p, q) == p.num * q.den < q.num * p.den

RLe(p, q) == p.num * q.den <= q.num * p.den

RAbs(p) == [num |-> Abs(p.num), den |-> p.den]

\* math.floor and math.ceil
RFloor(p) == p.num \div p.den

RCeil(p) == -((-p.num) \div p.den)

\* int(x): truncation toward zero
RTrunc(p) == IF p.num >= 0 THEN p.num \div p.den ELSE -((-p.num) \div p.den)

\* Python's x % w for a float x and w > 0: x - w * floor(x / w), in [0, w)
RMod(p, w) == RSub(p, RInt(w * RFloor(RDiv(p, RInt(w)))))

ISqrt(n) == CHOOSE k \in 0..n : k * k <= n /\ n < (k + 1) * (k + 1)

\* math.sqrt, exact on the squares of rationals (the only arguments the exact
\* model passes: squared lengths of integer vectors of integer norm, and t1^2)
RSqrt(p) == [num |-> ISqrt(p.num), den |-> ISqrt(p.den)]

R0 == RInt(0)

R1 == RInt(1)

(***************************************************************************)
(* vec2 over exact rationals (src lines 88-119).                           *)
(***************************************************************************)
vec2(x, y) == [x |-> x, y |-> y]

add(u, v) == vec2(RAdd(u.x, v.x), RAdd(u.y, v.y))

sub(u, v) == vec2(RSub(u.x, v.x), RSub(u.y, v.y))

scale(u, k) == vec2(RMul(u.x, k), RMul(u.y, k))

dot(u, v) == RAdd(RMul(u.x, v.x), RMul(u.y, v.y))

\* vec.length
length(u) == RSqrt(dot(u, u))

\* vec.distance
distance(u, p) == length(sub(p, u))

\* vec2.normalize: a zero vector is left as it is
normalize(u) ==
    LET norm == length(u)
    IN  IF RLt(R0, norm) THEN vec2(RDiv(u.x, norm), RDiv(u.y, norm)) ELSE u

\* vec2.cross(v).length(): the cross product is (0, 0, z) and its length |z|
crossLength(u, v) == RAbs(RSub(RMul(u.x, v.y), RMul(u.y, v.x)))

\* Ray.__init__: the direction is normalised
Ray(origin, direction) == [o |-> origin, d |-> normalize(direction)]

\* Intersection.__init__
Intersection(ray, t, tex_coord) ==
    LET p == add(ray.o, scale(ray.d, t))
    IN  [p |-> p, d |-> distance(ray.o, p), tc |-> tex_coord]

\* LineSegment.__init__.  The code keeps v = normalize(b - a) and its normal
\* n = (-v.y, v.x); v's length is irrational in general and intersect reads
\* n only through sign(side), so v is kept here as b - a, a positive multiple
\* of the code's v.
LineSegment(a, b, tca, tcb) ==
    LET v == sub(b, a)
    IN  [a |-> a, b |-> b, v |-> v, n |-> vec2(RNeg(v.y), v.x),
         tca |-> tca, tcb |-> tcb]

\* classifyPoint2D: (point - a).normalize().dot(n).  The normalisation divides
\* by a positive norm (or leaves the zero vector), so the sign is that of the
\* un-normalised product, which is what is computed here.
classifyPoint2D(self, point) == dot(sub(point, self.a), self.n)

sign(n) == Sgn(n.num)

lerp(a, b, t) == RAdd(RMul(a, t), RMul(b, RSub(R1, t)))

\* TOLERANCE = 0.000001
TOLERANCE == [num |-> 1, den |-> 1000000]

\* intersect with the side of the origin ignored: v3 is always the first branch
intersectOneSided(self, ray) ==
    LET v2   == sub(self.b, self.a)
        v3   == vec2(RNeg(ray.d.y), ray.d.x)
        det  == dot(v2, v3)
        v1   == sub(ray.o, self.a)
        t1   == RDiv(crossLength(v2, v1), det)
        t2   == RDiv(dot(v1, v3), det)
    IN  IF RLt(RAbs(det), TOLERANCE)
        THEN None
        ELSE IF RLe(R0, t2) /\ RLe(t2, R1) /\ RLt(R0, t1)
             THEN Intersection(ray, t1, lerp(self.tca, self.tcb, t2))
             ELSE None

\* LineSegment.intersect
intersect(self, ray) ==
    LET side == classifyPoint2D(self, ray.o)
        v2   == sub(self.b, self.a)
        v3   == IF sign(side) > 0
                THEN vec2(RNeg(ray.d.y), ray.d.x)
                ELSE vec2(ray.d.y, RNeg(ray.d.x))
        det  == dot(v2, v3)
        v1   == sub(ray.o, self.a)
        t1   == RDiv(crossLength(v2, v1), det)
        t2   == RDiv(dot(v1, v3), det)
    IN  IF RLt(RAbs(det), TOLERANCE)
        THEN None
        ELSE IF RLe(R0, t2) /\ RLe(t2, R1) /\ RLt(R0, t1)
             THEN Intersection(ray, t1, lerp(self.tca, self.tcb, t2))
             ELSE None

(***************************************************************************)
(* Texture addressing (src lines 190-196 and 206-213).  pygame.Rect and    *)
(* the subsurface it selects are the record [x, y, w, h].                  *)
(***************************************************************************)
Rect(x, y, w, h) == [x |-> x, y |-> y, w |-> w, h |-> h]

\* the wrap of a coordinate s onto a texture axis of n texels:
\*   _s = s * n if s >= 0.0 else (1.0 - (math.ceil(s) - s)) * n
\*   _s = int(_s % n)
\* with the negative branch reflecting instead of wrapping
WrapReflect(s, n) ==
    LET _s == IF RLe(R0, s)
              THEN RMul(s, RInt(n))
              ELSE RMul(RSub(RInt(RCeil(s)), s), RInt(n))
    IN  RTrunc(RMod(_s, n))

Wrap(s, n) ==
    LET _s == IF RLe(R0, s)
              THEN RMul(s, RInt(n))
              ELSE RMul(RSub(R1, RSub(RInt(RCeil(s)), s)), RInt(n))
    IN  RTrunc(RMod(_s, n))

\* LineSegment.get_tex_column
get_tex_column(tex, s) == Rect(Wrap(s, tex.w), 0, 1, tex.h)

\* Plane3d.sample_texture
sample_texture(tex, c) == Rect(Wrap(c.x, tex.w), Wrap(c.y, tex.h), 1, 1)

MaxTexSize == 3

TexDen == 4

MaxTexNum == 9

MaxShift == 2

TexSizes == {[w |-> w, h |-> h] : w \in 1..MaxTexSize, h \in 1..MaxTexSize}

TexCoordinates == {Rat(n, TexDen) : n \in -MaxTexNum..MaxTexNum}

IdleTex ==
    /\ texture = None
    /\ st = None
    /\ shift = None
    /\ column = None
    /\ texel = None
    /\ pcT = "idle"

InitTex ==
    /\ texture \in TexSizes
    /\ \E x \in TexCoordinates, y \in {Rat(-MaxTexNum, TexDen), Rat(-1, TexDen), R0, Rat(3, 2)} :
          st = vec2(x, y)
    /\ shift \in (-MaxShift..MaxShift) \X {-MaxShift, 0, 1}
    /\ column = None
    /\ texel = None
    /\ pcT = "column"

\* c = l.get_tex_column(s), at s and at s + k
GetTexColumn ==
    /\ pcT = "column"
    /\ column' = <<get_tex_column(texture, st.x),
                   get_tex_column(texture, RAdd(st.x, RInt(shift[1])))>>
    /\ pcT' = "texel"
    /\ UNCHANGED <<texture, st, shift, texel>>
    /\ UNCHANGED <<varsI, varsS, varsF>>

\* ftex = floor.sample_texture(st), at st and at st + (k, m)
SampleTexture ==
    /\ pcT = "texel"
    /\ texel' = <<sample_texture(texture, st),
                  sample_texture(texture, add(st, vec2(RInt(shift[1]), RInt(shift[2]))))>>
    /\ pcT' = "done"
    /\ UNCHANGED <<texture, st, shift, column>>
    /\ UNCHANGED <<varsI, varsS, varsF>>

(***************************************************************************)
(* Distance shading (src lines 376-377, 403-404, 459-460):                 *)
(*   _d = (x if x < FAR else FAR) / FAR ; depth = 255 - int(_d * 255)      *)
(***************************************************************************)
FAR == 5

\* the shading with the distance not clamped to FAR
ShadeUnclamped(x) ==
    255 - RTrunc(RMul(RDiv(x, RInt(FAR)), RInt(255)))

Shade(x) ==
    LET _d == RDiv(IF RLt(x, RInt(FAR)) THEN x ELSE RInt(FAR), RInt(FAR))
    IN  255 - RTrunc(RMul(_d, RInt(255)))

\* walls: keyed on the hit distance d
WallShade(d) == Shade(d)

\* floor and ceiling: keyed on the row depth cd
PlaneShade(cd) == Shade(cd)

\* sprites: keyed on the forward depth ty
SpriteShade(ty) == Shade(ty)

ShadeDen == 10

MaxShadeNum == 60

Distances == {Rat(n, ShadeDen) : n \in 0..MaxShadeNum}

IdleShade ==
    /\ dist = None
    /\ shade = None
    /\ pcS = "idle"

InitShade ==
    /\ dist \in Distances \X Distances
    /\ shade = [wall |-> None, plane |-> None, sprite |-> None]
    /\ pcS = "wall"

ShadeWall ==
    /\ pcS = "wall"
    /\ shade' = [shade EXCEPT !.wall = <<WallShade(dist[1]), WallShade(dist[2])>>]
    /\ pcS' = "plane"
    /\ UNCHANGED dist
    /\ UNCHANGED <<varsI, varsT, varsF>>

ShadePlane ==
    /\ pcS = "plane"
    /\ shade' = [shade EXCEPT !.plane = <<PlaneShade(dist[1]), PlaneShade(dist[2])>>]
    /\ pcS' = "sprite"
    /\ UNCHANGED dist
    /\ UNCHANGED <<varsI, varsT, varsF>>

ShadeSprite ==
    /\ pcS = "sprite"
    /\ shade' = [shade EXCEPT !.sprite = <<SpriteShade(dist[1]), SpriteShade(dist[2])>>]
    /\ pcS' = "done"
    /\ UNCHANGED dist
    /\ UNCHANGED <<varsI, varsT, varsF>>

(***************************************************************************)
(* The inputs of the intersection check: segments and ray origins on an    *)
(* integer grid, ray directions integer vectors of integer norm.           *)
(***************************************************************************)
MaxCoord == 2

Grid == {vec2(RInt(x), RInt(y)) : x \in 0..MaxCoord, y \in 0..MaxCoord}

Origins == {vec2(RInt(x), RInt(y)) : x \in -1..MaxCoord, y \in -1..MaxCoord}

Directions ==
    {vec2(RInt(x), RInt(y)) :
        x \in {-4, -3, -1, 0, 1, 3, 4}, y \in {-4, -3, -1, 0, 1, 3, 4}}

RayDirections ==
    {d \in Directions :
        \/ Abs(d.x.num) + Abs(d.y.num) = 1
        \/ Abs(d.x.num) * Abs(d.y.num) = 12}

TexCoords == {<<RInt(0), RInt(6)>>, <<RInt(3), RInt(0)>>, <<RInt(1), RInt(1)>>}

IdleIntersect ==
    /\ l = None
    /\ r = None
    /\ intersection = None
    /\ pcI = "idle"

InitIntersect ==
    /\ \E a \in Grid, b \in Grid, tc \in TexCoords :
          /\ a # b
          /\ l = LineSegment(a, b, tc[1], tc[2])
    /\ \E o \in Origins, d \in RayDirections : r = Ray(o, d)
    /\ intersection = None
    /\ pcI = "call"

\* intersection = l.intersect(r)
Intersect ==
    /\ pcI = "call"
    /\ intersection' = intersect(l, r)
    /\ pcI' = "done"
    /\ UNCHANGED <<l, r>>
    /\ UNCHANGED <<varsT, varsS, varsF>>

(***************************************************************************)
(* Fixed point for the frame loop: a float x is the integer x * FX,        *)
(* truncated.  Products and quotients are split so that no intermediate    *)
(* value leaves 32 bits for world coordinates up to a few hundred units.   *)
(***************************************************************************)
FX == 100 * 100

Fx(n) == n * FX

\* x * y
FxMul(x, y) ==
    LET ax == Abs(x)
        ay == Abs(y)
        xh == ax \div FX
        xl == ax % FX
        yh == ay \div FX
        yl == ay % FX
    IN  Sgn(x) * Sgn(y) * (xh * yh * FX + xh * yl + xl * yh + (xl * yl) \div FX)

\* x / y, y # 0
FxDiv(x, y) ==
    LET ax == Abs(x)
        ay == Abs(y)
        a1 == (ax % ay) * 100
        a2 == (a1 % ay) * 100
    IN  Sgn(x) * Sgn(y) * ((ax \div ay) * FX + (a1 \div ay) * 100 + a2 \div ay)

\* int(x)
FxTrunc(x) == Sgn(x) * (Abs(x) \div FX)

RECURSIVE Bisect(_, _, _)
Bisect(n, lo, hi) ==
    IF lo >= hi THEN lo
    ELSE LET mid == (lo + hi + 1) \div 2
         IN  IF mid * mid <= n THEN Bisect(n, mid, hi) ELSE Bisect(n, lo, mid - 1)

\* the next decimal digit of a square root: the root so far is s, the
\* remainder (already multiplied by 100) is rem
SqrtDigit(s, rem) ==
    CHOOSE dg \in 0..9 :
        /\ (20 * s + dg) * dg <= rem
        /\ dg = 9 \/ (20 * s + dg + 1) * (dg + 1) > rem

SqrtStart(x, s0) == [s |-> s0, rem |-> (x - s0 * s0) * 100]

SqrtAppend(q, dg) ==
    [s |-> 10 * q.s + dg, rem |-> (q.rem - (20 * q.s + dg) * dg) * 100]

SqrtStep(q) == SqrtAppend(q, SqrtDigit(q.s, q.rem))

\* math.sqrt(x), x >= 0: floor(sqrt(x * FX)), the integer part by bisection
\* and two more decimal digits one by one
FxSqrt(x) ==
    SqrtStep(SqrtStep(SqrtStart(x, Bisect(x, 0, IF x < 46340 THEN x ELSE 46340)))).s

\* math.cos(x) and math.sin(x), x in radians, |x| < 1: Taylor polynomials
\* (the error of the truncation is below 1/FX)
CosSeries(x2, x4) ==
    FX - x2 \div 2 + x4 \div 24 - FxMul(x4, x2) \div 720 + FxMul(x4, x4) \div 40320

CosOfSquare(x2) == CosSeries(x2, FxMul(x2, x2))

FxCos(x) == CosOfSquare(FxMul(x, x))

SinSeries(x, x2, x3) ==
    x - x3 \div 6 + FxMul(x3, x2) \div 120 - FxMul(FxMul(x3, x2), x2) \div 5040

SinOfSquare(x, x2) == SinSeries(x, x2, FxMul(x2, x))

FxSin(x) == SinOfSquare(x, FxMul(x, x))

\* x * DEG2RAD, DEG2RAD = 3.14159... / 180.0
Deg2Rad(x) == FxMul(x, (31416 * FX) \div 10000) \div 180

(***************************************************************************)
(* vec2, Ray, Intersection and LineSegment in fixed point (the same code   *)
(* as above, lines 40-188, on fixed-point numbers).                        *)
(***************************************************************************)
addFx(u, v) == vec2(u.x + v.x, u.y + v.y)

subFx(u, v) == vec2(u.x - v.x, u.y - v.y)

scaleFx(u, k) == vec2(FxMul(u.x, k), FxMul(u.y, k))

dotFx(u, v) == FxMul(u.x, v.x) + FxMul(u.y, v.y)

lengthFx(u) == FxSqrt(dotFx(u, u))

lengthSQFx(u) == dotFx(u, u)

distanceFx(u, p) == lengthFx(subFx(p, u))

distanceSQFx(u, p) == lengthSQFx(subFx(p, u))

DividedBy(u, norm) ==
    IF norm > 0 THEN vec2(FxDiv(u.x, norm), FxDiv(u.y, norm)) ELSE u

normalizeFx(u) == DividedBy(u, lengthFx(u))

crossLengthFx(u, v) == Abs(FxMul(u.x, v.y) - FxMul(u.y, v.x))

RayFx(origin, direction) == [o |-> origin, d |-> normalizeFx(direction)]

IntersectionAt(o, p, tex_coord) ==
    [p |-> p, d |-> distanceFx(o, p), tc |-> tex_coord]

IntersectionFx(ray, t, tex_coord) ==
    IntersectionAt(ray.o, addFx(ray.o, scaleFx(ray.d, t)), tex_coord)

LineSegmentAlong(a, b, v, tca, tcb) ==
    [a |-> a, b |-> b, v |-> v, n |-> vec2(-v.y, v.x), tca |-> tca, tcb |-> tcb]

LineSegmentFx(a, b, tca, tcb) ==
    LineSegmentAlong(a, b, normalizeFx(subFx(b, a)), tca, tcb)

classifyPoint2DFx(self, point) == dotFx(normalizeFx(subFx(point, self.a)), self.n)

lerpFx(a, b, t) == FxMul(a, t) + FxMul(b, FX - t)

\* abs(det) < TOLERANCE
BelowTolerance(det) == Abs(det) <= (TOLERANCE.num * FX - 1) \div TOLERANCE.den

\* lines 185-188, t1 and t2 known
intersectAt(self, ray, t1, t2) ==
    IF t2 >= 0 /\ t2 <= FX /\ t1 > 0
    THEN IntersectionFx(ray, t1, lerpFx(self.tca, self.tcb, t2))
    ELSE None

\* lines 176-183, v1, v2, v3 and det known
intersectDet(self, ray, v1, v2, v3, det) ==
    IF BelowTolerance(det)
    THEN None
    ELSE intersectAt(self, ray, FxDiv(crossLengthFx(v2, v1), det),
                                FxDiv(dotFx(v1, v3), det))

\* lines 174-176, v3 known
intersectV3(self, ray, v2, v3) ==
    intersectDet(self, ray, subFx(ray.o, self.a), v2, v3, dotFx(v2, v3))

\* LineSegment.intersect in fixed point
intersectFx(self, ray) ==
    intersectV3(self, ray, subFx(self.b, self.a),
                IF Sgn(classifyPoint2DFx(self, ray.o)) > 0
                THEN vec2(-ray.d.y, ray.d.x)
                ELSE vec2(ray.d.y, -ray.d.x))

(***************************************************************************)
(* The scene of main (lines 266-282), coordinates in tenths.               *)
(***************************************************************************)
Tenths(n) == (n * FX) \div 10

P(x, y) == vec2(Tenths(x), Tenths(y))

walls ==
    << LineSegmentFx(P(30, 30), P(30, -30), 0, Fx(6)),
       LineSegmentFx(P(30, -30), P(-30, -30), 0, Fx(6)),
       LineSegmentFx(P(-30, -30), P(-30, 30), 0, Fx(6)),
       LineSegmentFx(P(20, 20), P(30, 30), 0, Fx(1)),
       LineSegmentFx(P(-20, 20), P(-30, 30), 0, Fx(1)),
       LineSegmentFx(P(-20, 20), P(20, 20), 0, Fx(4)),
       LineSegmentFx(P(-5, -10), P(-15, -30),
                     lengthFx(subFx(P(-15, -30), P(-5, -10))), 0),
       LineSegmentFx(P(-5, -10), P(5, -10), 0, Fx(1)),
       LineSegmentFx(P(5, -10), P(15, -30),
                     lengthFx(subFx(P(15, -30), P(5, -10))), 0) >>

\* the sprites' positions, in the order of the list at start-up
SpritePositions == << P(-15, -20), P(15, -20) >>

(***************************************************************************)
(* The frame loop of main (lines 234-482).                                 *)
(*                                                                         *)
(* FB_SIZE is (FB_W, FB_H): the height is the program's 200, the width is  *)
(* a bound of the model.  frame_buffer records, per column, which draw     *)
(* calls painted it (the wall strip, the darkening rectangle, the floor    *)
(* and ceiling rows, the sprite slices), not the colours of the pixels.    *)
(***************************************************************************)
FB_W == 8

FB_H == 200

HEIGHT_CLAMP_MULTIPLER == 10

\* FOV = 2.0 * math.atan(plane.length() / player_dir.length()) * RAD2DEG with
\* the start-up plane (0, 0.66) and direction (-1, 0): 66.8496 degrees
FOV == 668496

ANGLE_INCREMENT == FOV \div FB_W

PLAYER_MOVE_SPEED == Tenths(1)

\* PLAYER_TURN_SPEED = 2.0 * DEG2RAD
PLAYER_TURN_SPEED == Deg2Rad(Fx(2))

MaxFrames == 2

Columns == 0..(FB_W - 1)

Keys == {"UP", "DOWN", "LEFT", "RIGHT", "w", "a", "s", "d"}

NoEvent == [type |-> "NONE", key |-> "NONE"]

\* what pygame.event.get() yields in a frame: at most one event
Events ==
    {NoEvent, [type |-> "QUIT", key |-> "NONE"]}
        \cup {[type |-> t, key |-> k] :
                 t \in {"KEYDOWN", "KEYUP"}, k \in Keys \cup {"ESCAPE"}}

\* the rotation matrix applied to the view and projection vectors
RotateBy(u, cos, sin) ==
    vec2(FxMul(u.x, cos) - FxMul(u.y, sin), FxMul(u.x, sin) + FxMul(u.y, cos))

Rotate(u, a) == RotateBy(u, FxCos(a), FxSin(a))

\* lines 306-318: the camera movement, the keys in the code's order
Step(pos, on, by) == IF on THEN addFx(pos, by) ELSE pos

Moved(pos, dir, keys) ==
    Step(Step(Step(Step(pos,
        "UP" \in keys \/ "w" \in keys, scaleFx(dir, PLAYER_MOVE_SPEED)),
        "DOWN" \in keys \/ "s" \in keys, scaleFx(dir, -PLAYER_MOVE_SPEED)),
        "a" \in keys, scaleFx(normalizeFx(vec2(-dir.y, dir.x)), PLAYER_MOVE_SPEED)),
        "d" \in keys, scaleFx(normalizeFx(vec2(dir.y, -dir.x)), PLAYER_MOVE_SPEED))

\* lines 320-336: LEFT then RIGHT
TurnedBy(u, on, a) == IF on THEN Rotate(u, a) ELSE u

Turned(u, keys) ==
    TurnedBy(TurnedBy(u, "LEFT" \in keys, PLAYER_TURN_SPEED),
             "RIGHT" \in keys, -PLAYER_TURN_SPEED)

\* lines 356-362: an intersection is kept if it is closer than the best so far
\* (best = [c, tc, d, p]; c = 0: none yet, d = Inf)
Closer(k, hit, best) ==
    IF hit # None /\ (best.c = 0 \/ hit.d < best.d)
    THEN [c |-> k, tc |-> hit.tc, d |-> hit.d, p |-> hit.p]
    ELSE best

\* lines 349-362: the nearest hit among walls[k..], after the hits among
\* walls[1..k-1] left best
RECURSIVE NearestHit(_, _, _)
NearestHit(ray, k, best) ==
    IF k > Len(walls) THEN best
    ELSE NearestHit(ray, k + 1, Closer(k, intersectFx(walls[k], ray), best))

NoHit == [c |-> 0, tc |-> 0, d |-> 0, p |-> None]

\* line 346-347: the camera ray of column col
CameraRay(pos, dir, pl, col) ==
    RayFx(pos, addFx(dir, scaleFx(pl, 2 * FxDiv(Fx(col), Fx(FB_W)) - FX)))

\* lines 366-369: the projected height, clamped.  A quotient too large for
\* the fixed point is above the clamp, and the clamp is all that is read of it.
Clamped(h) ==
    IF h > HEIGHT_CLAMP_MULTIPLER * FB_H THEN HEIGHT_CLAMP_MULTIPLER * FB_H ELSE h

HeightOver(den) ==
    Clamped(IF Fx(FB_H) \div den > HEIGHT_CLAMP_MULTIPLER * FB_H
            THEN HEIGHT_CLAMP_MULTIPLER * FB_H + 1
            ELSE FxTrunc(FxDiv(Fx(FB_H), den)))

ProjectedHeight(d, a) == HeightOver(FxMul(d, FxCos(Deg2Rad(a))))

\* lines 376-377 in fixed point
ShadeFx(x) ==
    LET _d == FxDiv(IF x < Fx(FAR) THEN x ELSE Fx(FAR), Fx(FAR))
    IN  255 - FxTrunc(FxMul(_d, Fx(255)))

\* lines 386-389: the rows j the plane caster draws a floor pixel at
FloorRows(h) ==
    {j \in ((h \div 2) + (FB_H \div 2))..FB_H : 2 * j - FB_H > 0}

\* the rows of the frame buffer
Rows == 0..(FB_H - 1)

BlankColumn ==
    [wall |-> None, dark |-> None, floor |-> {}, ceil |-> {}, sprite |-> << >>]

\* lines 344-408 for one column
RenderedColumn(hit, h) ==
    LET y  == -(h \div 2) + (FB_H \div 2)
        fl == IF hit.c # 0 /\ h > 0 /\ h < FB_H THEN FloorRows(h) ELSE {}
    IN  IF hit.c = 0 THEN BlankColumn
        ELSE [wall   |-> [y |-> y, h |-> h],
              dark   |-> [y |-> IF y >= 0 THEN y ELSE 0,
                          h |-> IF h < FB_H THEN h ELSE FB_H - 1,
                          depth |-> ShadeFx(hit.d)],
              floor  |-> fl \cap Rows,
              ceil   |-> {FB_H - j : j \in fl} \cap Rows,
              sprite |-> << >>]

\* lines 411-413: sprites.sort(key = s.d, reverse = True), a stable sort of
\* the two sprites
FartherFirst(s1, s2) == IF s1.d < s2.d THEN <<s2, s1>> ELSE <<s1, s2>>

Sorted(sp, pos) ==
    FartherFirst([sp[1] EXCEPT !.d = distanceSQFx(pos, sp[1].p)],
                 [sp[2] EXCEPT !.d = distanceSQFx(pos, sp[2].p)])

\* lines 434-453: the rows and columns of the footprint, sp_screen_x and sh known
SpriteFootprint(s, tx, ty, sp_screen_x, sh, depth) ==
    LET sw           == sh
        draw_start_y == ((-sh) \div 2) + (FB_H \div 2)
        draw_start_x == ((-sw) \div 2) + sp_screen_x
        draw_end_x   == (sw \div 2) + sp_screen_x
        cover        == (IF draw_start_x < 0 THEN 0 ELSE draw_start_x)
                           ..((IF draw_end_x >= FB_W THEN FB_W ELSE draw_end_x) - 1)
    IN  [id |-> s.id, tx |-> tx, ty |-> ty, sh |-> sh,
         y |-> IF draw_start_y < 0 THEN 0 ELSE draw_start_y,
         cover |-> cover,
         drawn |-> {c \in cover : c >= 0 /\ c < FB_W /\ ty < depth[c]},
         depth |-> ShadeFx(ty)]

\* lines 425-432, tx and ty known
SpriteInEyeSpace(s, tx, ty, depth) ==
    IF ty <= 0
    THEN [id |-> s.id, tx |-> tx, ty |-> ty, sh |-> 0, y |-> 0,
          cover |-> {}, drawn |-> {}, depth |-> 0]
    ELSE SpriteFootprint(s, tx, ty,
                         FxTrunc((FB_W \div 2) * (FX + FxDiv(tx, ty))),
                         FxTrunc(Abs(FxDiv(Fx(FB_H), ty))), depth)

\* lines 421-423, sp_eye and inv_det known
SpriteTransformed(s, sp_eye, inv_det, dir, pl, depth) ==
    SpriteInEyeSpace(s,
        FxMul(inv_det, FxMul(dir.y, sp_eye.x) - FxMul(dir.x, sp_eye.y)),
        FxMul(inv_det, FxMul(-pl.y, sp_eye.x) + FxMul(pl.x, sp_eye.y)),
        depth)

\* lines 417-453 for one sprite: the camera-space position, the footprint
\* and the columns that pass the depth test
SpriteSlice(s, pos, dir, pl, depth) ==
    SpriteTransformed(s, subFx(s.p, pos),
                      FxDiv(FX, FxMul(pl.x, dir.y) - FxMul(dir.x, pl.y)),
                      dir, pl, depth)

\* poses the player reaches from the start pose (0, 0) by holding DOWN and
\* a or d (the player moves in steps of 0.1 and nothing stops it), looking
\* along -x as at start-up
StartPoses == {P(0, 0), P(-26, 0), P(200, 84), P(2500, 0)}

IdleFrame ==
    /\ player_pos = None
    /\ player_dir = None
    /\ plane = None
    /\ arrow_keys = {}
    /\ done = FALSE
    /\ pc = "idle"
    /\ frame = 0
    /\ i = 0
    /\ angle = 0
    /\ depth_buffer = None
    /\ depth_stamp = None
    /\ hits = None
    /\ frame_buffer = None
    /\ sprites = None
    /\ si = 0
    /\ sprite_log = << >>

InitFrame ==
    /\ player_pos \in StartPoses
    /\ player_dir = vec2(-FX, 0)
    /\ plane = vec2(0, (66 * FX) \div 100)
    /\ arrow_keys = {}
    /\ done = FALSE
    /\ pc = "input"
    /\ frame = 1
    /\ i = 0
    /\ angle = 0
    /\ depth_buffer = None
    /\ depth_stamp = None
    /\ hits = [c \in Columns |-> NoHit @@ [h |-> 0]]
    /\ frame_buffer = [c \in Columns |-> BlankColumn]
    /\ sprites = [k \in 1..Len(SpritePositions) |->
                     [id |-> k, p |-> SpritePositions[k], d |-> 0]]
    /\ si = 0
    /\ sprite_log = << >>

\* lines 287-336: the events of the frame, then the camera movement
HandleInput ==
    /\ pc = "input"
    /\ \E event \in Events :
         LET keys == IF event.type = "KEYDOWN" /\ event.key \in Keys
                     THEN arrow_keys \cup {event.key}
                     ELSE IF event.type = "KEYUP"
                          THEN arrow_keys \ {event.key}
                          ELSE arrow_keys
         IN  /\ done' = (done \/ event.type = "QUIT"
                              \/ (event.type = "KEYDOWN" /\ event.key = "ESCAPE"))
             /\ arrow_keys' = keys
             /\ player_pos' = Moved(player_pos, player_dir, keys)
             /\ player_dir' = Turned(player_dir, keys)
             /\ plane' = Turned(plane, keys)
    /\ pc' = "clear"
    /\ UNCHANGED <<frame, i, angle, depth_buffer, depth_stamp, hits,
                   frame_buffer, sprites, si, sprite_log>>
    /\ UNCHANGED <<varsI, varsT, varsS>>

\* a depth buffer that outlives the frame: made once, never reset
StaleDepthBuffer(old) == IF old = None THEN [c \in Columns |-> 0] ELSE old

\* line 343: the depth buffer as the frame starts, a new list of zeros
FreshDepthBuffer(old) == [c \in Columns |-> 0]

\* lines 339-343: the frame buffer is filled, a new depth buffer is made
ClearFrame ==
    /\ pc = "clear"
    /\ frame_buffer' = [c \in Columns |-> BlankColumn]
    /\ angle' = -(FOV \div 2)
    /\ depth_buffer' = FreshDepthBuffer(depth_buffer)
    /\ depth_stamp' = [c \in Columns |-> 0]
    /\ hits' = [c \in Columns |-> NoHit @@ [h |-> 0]]
    /\ i' = 0
    /\ sprite_log' = << >>
    /\ pc' = "walls"
    /\ UNCHANGED <<player_pos, player_dir, plane, arrow_keys, done, frame,
                   sprites, si>>
    /\ UNCHANGED <<varsI, varsT, varsS>>

\* lines 364-406: what column i's hit and height h write
ColumnDrawn(hit, h) ==
    /\ hits' = [hits EXCEPT ![i] = [c |-> hit.c, tc |-> hit.tc, d |-> hit.d,
                                     p |-> hit.p, h |-> h]]
    /\ frame_buffer' = [frame_buffer EXCEPT ![i] = RenderedColumn(hit, h)]

\* depth_buffer[i] = d when column i has a hit
DepthWritten(buf, hit) == IF hit.c # 0 THEN [buf EXCEPT ![i] = hit.d] ELSE buf

\* lines 349-369: what the nearest hit of column i (c = 0: none) writes
ColumnOfHit(hit) ==
    /\ depth_buffer' = DepthWritten(depth_buffer, hit)
    /\ depth_stamp' = IF hit.c # 0
                      THEN [depth_stamp EXCEPT ![i] = frame]
                      ELSE depth_stamp
    /\ ColumnDrawn(hit, IF hit.c # 0 THEN ProjectedHeight(hit.d, angle) ELSE 0)

\* lines 344-408: one turn of the wall loop, for column i
WallColumn ==
    /\ pc = "walls"
    /\ i < FB_W
    /\ ColumnOfHit(NearestHit(CameraRay(player_pos, player_dir, plane, i), 1, NoHit))
    /\ angle' = angle + ANGLE_INCREMENT
    /\ i' = i + 1
    /\ pc' = IF i + 1 = FB_W THEN "sort" ELSE "walls"
    /\ UNCHANGED <<player_pos, player_dir, plane, arrow_keys, done, frame,
                   sprites, si, sprite_log>>
    /\ UNCHANGED <<varsI, varsT, varsS>>

\* lines 411-413
SortSprites ==
    /\ pc = "sort"
    /\ sprites' = Sorted(sprites, player_pos)
    /\ si' = 1
    /\ pc' = "sprites"
    /\ UNCHANGED <<player_pos, player_dir, plane, arrow_keys, done, frame, i,
                   angle, depth_buffer, depth_stamp, hits, frame_buffer,
                   sprite_log>>
    /\ UNCHANGED <<varsI, varsT, varsS>>

\* lines 446-470: the slices of sprite s that pass the depth test are drawn
SliceDrawn(s) ==
    /\ sprite_log' = Append(sprite_log, s)
    /\ frame_buffer' =
          [c \in Columns |->
              IF c \in s.drawn
              THEN [frame_buffer[c] EXCEPT
                       !.sprite = Append(@, [id |-> s.id, y |-> s.y, h |-> s.sh])]
              ELSE frame_buffer[c]]

\* lines 416-470: one turn of the sprite loop, for sprites[si]
RenderSprite ==
    /\ pc = "sprites"
    /\ si <= Len(sprites)
    /\ SliceDrawn(SpriteSlice(sprites[si], player_pos, player_dir, plane, depth_buffer))
    /\ si' = si + 1
    /\ pc' = IF si = Len(sprites) THEN "present" ELSE "sprites"
    /\ UNCHANGED <<player_pos, player_dir, plane, arrow_keys, done, frame, i,
                   angle, depth_buffer, depth_stamp, hits, sprites>>
    /\ UNCHANGED <<varsI, varsT, varsS>>

\* lines 472-477 and the loop test of line 286
Present ==
    /\ pc = "present"
    /\ IF done
       THEN pc' = "quit" /\ frame' = frame
       ELSE /\ frame < MaxFrames
            /\ pc' = "input"
            /\ frame' = frame + 1
    /\ UNCHANGED <<player_pos, player_dir, plane, arrow_keys, done, i, angle,
                   depth_buffer, depth_stamp, hits, frame_buffer, sprites, si,
                   sprite_log>>
    /\ UNCHANGED <<varsI, varsT, varsS>>

(***************************************************************************)
(* The specifications.                                                     *)
(***************************************************************************)
InitI == InitIntersect /\ IdleTex /\ IdleShade /\ IdleFrame

NextI == Intersect

SpecI == InitI /\ [][NextI]_vars

InitT == InitTex /\ IdleIntersect /\ IdleShade /\ IdleFrame

NextT == GetTexColumn \/ SampleTexture

SpecT == InitT /\ [][NextT]_vars

InitS == InitShade /\ IdleIntersect /\ IdleTex /\ IdleFrame

NextS == ShadeWall \/ ShadePlane \/ ShadeSprite

SpecS == InitS /\ [][NextS]_vars

InitF == InitFrame /\ IdleIntersect /\ IdleTex /\ IdleShade

NextF ==
    \/ HandleInput
    \/ ClearFrame
    \/ WallColumn
    \/ SortSprites
    \/ RenderSprite
    \/ Present

SpecF == InitF /\ [][NextF]_vars

(***************************************************************************)
(* The claims.                                                             *)
(***************************************************************************)
\* C7: texture addressing has period 1: get_tex_column(s) and
\* get_tex_column(s + k) select the same texel column, sample_texture the same
\* texel at (x, y) and (x + k, y + m), for positive and negative coordinates,
\* and the index selected lies in [0, width) (resp. [0, height)).
C7_TexturePeriodic ==
    /\ pcT \in {"texel", "done"} =>
          /\ column[1] = column[2]
          /\ column[1].x \in 0..(texture.w - 1)
    /\ pcT = "done" =>
          /\ texel[1] = texel[2]
          /\ texel[1].x \in 0..(texture.w - 1)
          /\ texel[1].y \in 0..(texture.h - 1)

\* a negative, non-integer coordinate moved across zero by a whole number
C7_Witness ==
    /\ pcT = "done"
    /\ RLt(st.x, R0) /\ st.x.den # 1
    /\ RLt(st.y, R0) /\ st.y.den # 1
    /\ RLt(R0, RAdd(st.x, RInt(shift[1])))
    /\ RLt(R0, RAdd(st.y, RInt(shift[2])))
    /\ texture.w > 1 /\ texture.h > 1
    /\ column[1].x > 0
    /\ texel[1] = texel[2]

\* C8: the shading factor 255 - int(min(x, FAR)/FAR * 255) of walls, floor
\* and ceiling, and sprites does not increase with the distance, is 255 at
\* distance 0 and is 0 at every distance at or above FAR.
ShadeOk(x, y, f) ==
    /\ RLe(x, y) => f[1] >= f[2]
    /\ x = R0 => f[1] = 255
    /\ RLe(RInt(FAR), x) => f[1] = 0
    /\ RLe(RInt(FAR), y) => f[2] = 0
    /\ f[1] \in 0..255

C8_ShadeMonotone ==
    /\ pcS \in {"plane", "sprite", "done"} => ShadeOk(dist[1], dist[2], shade.wall)
    /\ pcS \in {"sprite", "done"} => ShadeOk(dist[1], dist[2], shade.plane)
    /\ pcS = "done" => ShadeOk(dist[1], dist[2], shade.sprite)

\* a distance inside the fog range that is partly darkened, and one beyond FAR
C8_Witness ==
    /\ pcS = "done"
    /\ RLt(R0, dist[1]) /\ RLt(dist[1], RInt(FAR)) /\ RLt(RInt(FAR), dist[2])
    /\ shade.wall[1] \in 1..254 /\ shade.wall[2] = 0
    /\ shade.plane = shade.wall /\ shade.sprite = shade.wall

(***************************************************************************)
(* The geometric reference: the solution of o + t1*d = a + t2*(b - a) by   *)
(* Cramer's rule, with one orientation whatever the side of the origin.    *)
(***************************************************************************)
cross2(u, v) == RSub(RMul(u.x, v.y), RMul(u.y, v.x))

RefDen == cross2(r.d, sub(l.b, l.a))

RefT1 == RDiv(cross2(sub(l.a, r.o), sub(l.b, l.a)), RefDen)

RefT2 == RNeg(RDiv(cross2(r.d, sub(l.a, r.o)), RefDen))

RefHit ==
    /\ RefDen # R0
    /\ RLt(R0, RefT1)
    /\ RLe(R0, RefT2)
    /\ RLe(RefT2, R1)

\* C1: intersect returns a hit exactly when the ray is not parallel to the
\* segment and the solution of o + t1*d = a + t2*(b-a) has
\* t1 > 0 and 0 <= t2 <= 1 (ends included), from either side of the segment;
\* the point returned is o + t1*d and the distance returned is t1.
C1_IntersectAgrees ==
    pcI = "done" =>
        /\ (intersection # None) <=> RefHit
        /\ intersection # None =>
              /\ intersection.p = add(r.o, scale(r.d, RefT1))
              /\ intersection.d = RefT1

\* C1's instance: a = (0,0), b = (2,0), o = (1,-1), d = (0,1) hits (1,0) at
\* distance 1 (the origin is on the side opposite to the normal).
C1_Witness ==
    /\ pcI = "done"
    /\ l.a = vec2(RInt(0), RInt(0))
    /\ l.b = vec2(RInt(2), RInt(0))
    /\ r.o = vec2(RInt(1), RInt(-1))
    /\ r.d = vec2(RInt(0), RInt(1))
    /\ sign(classifyPoint2D(l, r.o)) < 0
    /\ intersection # None
    /\ intersection.p = vec2(RInt(1), RInt(0))
    /\ intersection.d = RInt(1)

\* C2: the texture coordinate of a hit is tca + t2*(tcb - tca): tca at
\* endpoint a (t2 = 0), tcb at endpoint b (t2 = 1).
C2_TexCoordLerpByT2 ==
    (pcI = "done" /\ intersection # None) =>
        intersection.tc = RAdd(l.tca, RMul(RefT2, RSub(l.tcb, l.tca)))

(***************************************************************************)
(* The frame.  hits[c] keeps the locals c, d, p, h of column c's turn of   *)
(* the wall loop, sprite_log what the sprite loop computed for each        *)
(* sprite, depth_stamp[c] the frame whose wall pass wrote depth_buffer[c]  *)
(* (0: not written since the buffer was made).                             *)
(***************************************************************************)
AfterWalls == pc \in {"sort", "sprites", "present", "quit"}

\* the camera-forward distance of column c's hit point: (p - pos) . dir
PerpendicularDepth(c) == dotFx(subFx(hits[c].p, player_pos), player_dir)

\* C3: a sprite slice is drawn in a column with a wall hit only if the
\* sprite's forward depth ty is strictly less than the perpendicular
\* (camera-forward) distance of that hit, off-centre columns included
\* (1/100 of a unit is allowed for the rounding of the fixed point).
C3_DrawnOnlyInFrontOfWall ==
    pc = "present" =>
        \A k \in 1..Len(sprite_log) :
            \A c \in sprite_log[k].drawn :
                hits[c].c # 0 =>
                    sprite_log[k].ty < PerpendicularDepth(c) + (FX \div 100)

\* C4: a column whose ray hits no wall is of infinite depth for the sprite
\* pass: every sprite in front of the camera (ty > 0) whose footprint covers
\* the column is drawn in it.
C4_NoHitColumnShowsSprites ==
    pc = "present" =>
        \A k \in 1..Len(sprite_log) :
            \A c \in sprite_log[k].cover :
                (hits[c].c = 0 /\ sprite_log[k].ty > 0) => c \in sprite_log[k].drawn

\* C5: in every column with a wall hit the projected height, after the
\* clamp, is at least 1 and at most HEIGHT_CLAMP_MULTIPLER * screen_height.
C5_HeightWithinClamp ==
    AfterWalls =>
        \A c \in Columns :
            hits[c].c # 0 => hits[c].h \in 1..(HEIGHT_CLAMP_MULTIPLER * FB_H)

\* the depth buffer holds what this frame's wall pass wrote, and zeros elsewhere
DepthBufferOfFrame ==
    \A c \in Columns :
        /\ depth_stamp[c] \in {0, frame}
        /\ depth_stamp[c] = frame <=> hits[c].c # 0
        /\ depth_buffer[c] = hits[c].d

\* C6: in every frame the depth buffer is made anew (all zeros) before the
\* wall pass, depth_buffer changes only then and in the wall pass (there, at
\* column i only), and the sprite pass runs only when the wall pass has done
\* all the columns, so that what it reads is this frame's write or the fresh 0.
C6_WallsBeforeSprites ==
    /\ [](pc \in {"sort", "sprites", "present"} => (i = FB_W /\ DepthBufferOfFrame))
    /\ [][(pc # "walls" /\ pc' = "walls") =>
             depth_buffer' = [c \in Columns |-> 0]]_vars
    /\ [][depth_buffer' # depth_buffer =>
             \/ pc = "clear"
             \/ /\ pc = "walls"
                /\ \A c \in Columns \ {i} : depth_buffer'[c] = depth_buffer[c]]_vars

\* the second frame's sprite pass has read a depth written by the second
\* frame's wall pass and drawn a slice there
C6_Witness ==
    /\ pc = "present"
    /\ frame = 2
    /\ \E k \in 1..Len(sprite_log) :
          \E c \in sprite_log[k].drawn :
             /\ depth_stamp[c] = 2
             /\ depth_buffer[c] > sprite_log[k].ty

\* C9: the columns that hit one flat wall perpendicular to the view axis
\* have the same projected height to within 1 pixel (one more pixel is
\* allowed for the rounding of the fixed point).
C9_FlatWallConstantHeight ==
    AfterWalls =>
        \A c1, c2 \in Columns :
            ( /\ hits[c1].c # 0
              /\ hits[c1].c = hits[c2].c
              /\ dotFx(walls[hits[c1].c].v, player_dir) = 0 )
            => Abs(hits[c1].h - hits[c2].h) <= 2

\* the rows top .. top + h - 1 of the wall strip of column c
StripRows(c) ==
    frame_buffer[c].wall.y..(frame_buffer[c].wall.y + frame_buffer[c].wall.h - 1)

\* C10: in a column with a wall strip of height 0 < h < screen_height the
\* floor pixels are strictly below the strip, the ceiling pixels strictly
\* above it, and no floor or ceiling pixel is on a row of the strip.
C10_PlanesClearOfStrip ==
    AfterWalls =>
        \A c \in Columns :
            (hits[c].c # 0 /\ hits[c].h > 0 /\ hits[c].h < FB_H) =>
                /\ \A j \in frame_buffer[c].floor :
                      j > frame_buffer[c].wall.y + frame_buffer[c].wall.h - 1
                /\ \A j \in frame_buffer[c].ceil : j < frame_buffer[c].wall.y
                /\ (frame_buffer[c].floor \cup frame_buffer[c].ceil)
                      \cap StripRows(c) = {}

\* the rows of the darkening rectangle of column c (lines 378-383)
DarkRows(c) ==
    frame_buffer[c].dark.y..(frame_buffer[c].dark.y + frame_buffer[c].dark.h - 1)

\* C11: in every column with a wall hit and a projected height h >= 1, also
\* when h >= screen_height and the strip is clipped to the screen, the
\* darkening fill covers exactly the on-screen rows of the wall strip, the
\* bottom screen row included, and no row outside the strip.
C11_DarkeningCoversStrip ==
    AfterWalls =>
        \A c \in Columns :
            (hits[c].c # 0 /\ hits[c].h >= 1) =>
                DarkRows(c) \cap Rows = StripRows(c) \cap Rows

====
